---- MODULE Spec2Model ----
(***************************************************************************)
(* A model of the pcb2blender exporter (src/pcb2blender_exporter/export.py): *)
(* the annotation parser get_boarddefs, the name sanitizer, the scratch     *)
(* directory and the archive written by export_pcb3d.                       *)
(*                                                                          *)
(* Texts are TLA+ strings, handled character by character with Len, SubSeq  *)
(* and \o.  Lengths are whole millimetres (the values ToMM hands to the     *)
(* code); a Python dict is a sequence of [key, value] records in insertion  *)
(* order, a zip archive the sequence of its entries in write order.         *)
(***************************************************************************)
EXTENDS Integers, Sequences, FiniteSets, TLC

VARIABLES
    drawings,    \* board.GetDrawings(): the drawings of the host board, in order
    bbox,        \* board.ComputeBoundingBox(aBoardEdgesOnly=True), in millimetres
    components,  \* the component models the host's ExportVRML produces for the board
    boarddefs,   \* first value returned by the last get_boarddefs call
    ignored,     \* second value returned by the last get_boarddefs call
    tempdir,     \* the scratch directory get_tempdir() names
    archive,     \* the zip file at filepath
    run,         \* number of export_pcb3d invocations started so far
    pc,          \* where the plugin stands: "edit", "parsed", "exported", or
                 \* "failed_init", "failed_render", "failed_zip" after a failed export
    name_in,     \* argument of the sanitized calls under study
    name_out     \* results of successive sanitized applications to name_in

vars == <<drawings, bbox, components, boarddefs, ignored, tempdir, archive, run, pc,
          name_in, name_out>>

(***************************************************************************)
(* Bounds of the model.                                                     *)
(***************************************************************************)
MaxDrawings == 4   \* longest drawing list of a board
MaxNameLen == 4    \* longest string handed to sanitized in SpecSanitize
MaxRuns == 2       \* export_pcb3d invocations in SpecScratch

(***************************************************************************)
(* Program constants.                                                       *)
(***************************************************************************)
PCB == "pcb.wrl"
COMPONENTS == "components"
LAYERS == "layers"
LAYERS_BOUNDS == "bounds"
BOARDS == "boards"
BOUNDS == "bounds"
STACKED == "stacked_"
INCLUDED_LAYERS ==
    <<"F_Cu", "B_Cu", "F_Paste", "B_Paste", "F_SilkS", "B_SilkS", "F_Mask", "B_Mask">>
SVG_MARGIN == 1
PCB_TEXT_T == "PCB_TEXT_T"

(***************************************************************************)
(* Python strings.                                                          *)
(***************************************************************************)
Char(s, i) == SubSeq(s, i, i)

\* s.startswith(p)
StartsWith(s, p) == Len(s) >= Len(p) /\ SubSeq(s, 1, Len(p)) = p

\* s[n:]
SliceFrom(s, n) == SubSeq(s, n + 1, Len(s))

\* s.split(sep) for a one-character separator: the fields between separators
RECURSIVE Split(_, _)
Split(s, sep) ==
    IF \A i \in 1..Len(s) : Char(s, i) # sep
    THEN <<s>>
    ELSE LET i == CHOOSE k \in 1..Len(s) :
                      /\ Char(s, k) = sep
                      /\ \A j \in 1..(k - 1) : Char(s, j) # sep
         IN  <<SubSeq(s, 1, i - 1)>> \o Split(SliceFrom(s, i), sep)

Digits == {"0", "1", "2", "3", "4", "5", "6", "7", "8", "9"}
Letters ==
    {"a", "b", "c", "d", "e", "f", "g", "h", "i", "j", "k", "l", "m",
     "n", "o", "p", "q", "r", "s", "t", "u", "v", "w", "x", "y", "z",
     "A", "B", "C", "D", "E", "F", "G", "H", "I", "J", "K", "L", "M",
     "N", "O", "P", "Q", "R", "S", "T", "U", "V", "W", "X", "Y", "Z"}

\* the regex class \w (ASCII part): letters, digits and the underscore
WordChars == Letters \cup Digits \cup {"_"}

\* re.sub("[\W]+", "_", name), scanning left to right: a character of \W that
\* follows a character of \W belongs to the match already replaced.
RECURSIVE SubNonWord(_, _, _)
SubNonWord(name, i, in_match) ==
    IF i > Len(name) THEN ""
    ELSE IF Char(name, i) \in WordChars
         THEN Char(name, i) \o SubNonWord(name, i + 1, FALSE)
         ELSE IF in_match
              THEN SubNonWord(name, i + 1, TRUE)
              ELSE "_" \o SubNonWord(name, i + 1, TRUE)

\* re.sub("[\W]", "_", name): every character of \W replaced on its own
RECURSIVE sanitized_EachChar(_)
sanitized_EachChar(name) ==
    IF name = "" THEN ""
    ELSE (IF Char(name, 1) \in WordChars THEN Char(name, 1) ELSE "_")
         \o sanitized_EachChar(SliceFrom(name, 1))

sanitized(name) == SubNonWord(name, 1, FALSE)

(***************************************************************************)
(* float(text) for the decimal spellings: optional surrounding blanks, an   *)
(* optional sign, digits with at most one point and at least one digit.     *)
(* Anything else raises ValueError.  The value is kept when it is a whole   *)
(* number; the boards of this model carry no offset with a non-zero         *)
(* fraction, an exponent, or the spellings inf and nan.                     *)
(***************************************************************************)
RECURSIVE Strip(_)
Strip(s) ==
    IF s = "" THEN s
    ELSE IF Char(s, 1) = " " THEN Strip(SliceFrom(s, 1))
    ELSE IF Char(s, Len(s)) = " " THEN Strip(SubSeq(s, 1, Len(s) - 1))
    ELSE s

DigitValue(c) ==
    CASE c = "0" -> 0 [] c = "1" -> 1 [] c = "2" -> 2 [] c = "3" -> 3
      [] c = "4" -> 4 [] c = "5" -> 5 [] c = "6" -> 6 [] c = "7" -> 7
      [] c = "8" -> 8 [] c = "9" -> 9

RECURSIVE DigitsValue(_)
DigitsValue(s) ==
    IF s = "" THEN 0
    ELSE 10 * DigitsValue(SubSeq(s, 1, Len(s) - 1)) + DigitValue(Char(s, Len(s)))

float(text) ==
    LET t == Strip(text)
        signed == t # "" /\ Char(t, 1) \in {"+", "-"}
        body == IF signed THEN SliceFrom(t, 1) ELSE t
        points == {i \in 1..Len(body) : Char(body, i) = "."}
        digits == {i \in 1..Len(body) : Char(body, i) \in Digits}
        ok == /\ digits # {}
              /\ Cardinality(points) <= 1
              /\ points \cup digits = 1..Len(body)
        whole == IF points = {} THEN body
                 ELSE SubSeq(body, 1, (CHOOSE i \in points : TRUE) - 1)
        magnitude == DigitsValue(whole)
    IN  [ValueError |-> ~ok,
         value |-> IF ~ok THEN 0
                   ELSE IF signed /\ Char(t, 1) = "-" THEN 0 - magnitude
                   ELSE magnitude]

(***************************************************************************)
(* Python dicts: sequences of [key, value] records with distinct keys, in   *)
(* insertion order.                                                         *)
(***************************************************************************)
Keys(d) == [i \in DOMAIN d |-> d[i].key]                \* list(d.keys())
KeySet(d) == {d[i].key : i \in DOMAIN d}                \* set(d)
Has(d, k) == k \in KeySet(d)                            \* k in d
Get(d, k) == d[CHOOSE i \in DOMAIN d : d[i].key = k].value   \* d[k]

\* a setdefault that stores v also when k is present
SetDefault_Overwrite(d, k, v) ==
    IF Has(d, k)
    THEN [i \in DOMAIN d |-> IF d[i].key = k THEN [key |-> k, value |-> v] ELSE d[i]]
    ELSE Append(d, [key |-> k, value |-> v])

\* d.setdefault(k, v): the dict afterwards
SetDefault(d, k, v) ==
    IF Has(d, k) THEN d ELSE Append(d, [key |-> k, value |-> v])

\* d.pop(k): the dict afterwards
Pop(d, k) == SelectSeq(d, LAMBDA e : e.key # k)

\* d[k] = v: the dict afterwards (an existing key keeps its place)
SetItem(d, k, v) ==
    IF Has(d, k)
    THEN [i \in DOMAIN d |-> IF d[i].key = k THEN [key |-> k, value |-> v] ELSE d[i]]
    ELSE Append(d, [key |-> k, value |-> v])

(***************************************************************************)
(* get_boarddefs, pass 1: the loop over board.GetDrawings().                *)
(* b is the tuple of locals [tls, brs, stacks, ignored].                    *)
(***************************************************************************)
ClassifyDrawing(b, drawing) ==
    IF drawing.type # PCB_TEXT_T THEN b
    ELSE IF ~StartsWith(drawing.text, "PCB3D_") THEN b
    ELSE IF StartsWith(drawing.text, "PCB3D_TL_")
         THEN [b EXCEPT !.tls = SetDefault(b.tls, drawing.text, drawing.pos)]
    ELSE IF StartsWith(drawing.text, "PCB3D_BR_")
         THEN [b EXCEPT !.brs = SetDefault(b.brs, drawing.text, drawing.pos)]
    ELSE IF StartsWith(drawing.text, "PCB3D_STACK_")
         THEN [b EXCEPT !.stacks = SetDefault(b.stacks, drawing.text, drawing.pos)]
    ELSE [b EXCEPT !.ignored = Append(b.ignored, drawing.text)]

RECURSIVE ClassifyDrawings(_, _)
ClassifyDrawings(b, ds) ==
    IF ds = <<>> THEN b
    ELSE ClassifyDrawings(ClassifyDrawing(b, Head(ds)), Tail(ds))

(***************************************************************************)
(* Pass 2: for tl_str in tls.copy().  s is [tls, brs, boarddefs].           *)
(***************************************************************************)
BoardBounds(tl_pos, br_pos) ==
    <<tl_pos[1], tl_pos[2], br_pos[1] - tl_pos[1], br_pos[2] - tl_pos[2]>>

ResolveBoard(s, tl_str) ==
    LET name == SliceFrom(tl_str, 9)
        br_str == "PCB3D_BR_" \o name
    IN  IF Has(s.brs, br_str)
        THEN LET tl_pos == Get(s.tls, tl_str)
                 br_pos == Get(s.brs, br_str)
                 boarddef == [name |-> sanitized(name),
                              bounds |-> BoardBounds(tl_pos, br_pos),
                              stacked_boards |-> <<>>]
             IN  [tls |-> Pop(s.tls, tl_str),
                  brs |-> Pop(s.brs, br_str),
                  boarddefs |-> SetItem(s.boarddefs, boarddef.name, boarddef)]
        ELSE s

RECURSIVE ResolveBoards(_, _)
ResolveBoards(s, tl_strs) ==
    IF tl_strs = <<>> THEN s
    ELSE ResolveBoards(ResolveBoard(s, Head(tl_strs)), Tail(tl_strs))

(***************************************************************************)
(* Pass 3: for stack_str in stacks.copy().  s is [stacks, boarddefs].       *)
(***************************************************************************)
\* a parse that never raises: missing fields are empty and a z_offset that is
\* no number counts as 0
ParseStack_Lenient(stack_str) ==
    LET fields == Split(SliceFrom(stack_str, 12), "_") \o <<"", "", "", "">>
    IN  [ValueError |-> FALSE,
         other |-> fields[1], onto |-> fields[2], target |-> fields[3],
         z_offset |-> float(fields[4]).value]

\* the try block: unpacking the four fields and float(z_offset)
ParseStack(stack_str) ==
    LET fields == Split(SliceFrom(stack_str, 12), "_")
    IN  IF Len(fields) # 4
        THEN [ValueError |-> TRUE, other |-> "", onto |-> "", target |-> "", z_offset |-> 0]
        ELSE [ValueError |-> float(fields[4]).ValueError,
              other |-> fields[1], onto |-> fields[2], target |-> fields[3],
              z_offset |-> float(fields[4]).value]

\* acceptance that looks at the target only
StackAccepted_TargetOnly(other_name, target_name, defs) == Has(defs, target_name)

\* acceptance without the reserved panel element
StackAccepted_BoardsOnly(other_name, target_name, defs) ==
    /\ other_name \in KeySet(defs)
    /\ Has(defs, target_name)

\* the negation of the condition of line 128
StackAccepted(other_name, target_name, defs) ==
    /\ other_name \in KeySet(defs) \cup {"FPNL"}
    /\ Has(defs, target_name)

StackOffset(stack_pos, target_pos, z_offset) ==
    <<stack_pos[1] - target_pos[1], stack_pos[2] - target_pos[2], z_offset>>

ResolveStack(s, stack_str) ==
    LET p == ParseStack(stack_str)
        other_name == sanitized(p.other)
        target_name == sanitized(p.target)
    IN  IF p.ValueError THEN s
        ELSE IF p.onto # "ONTO" THEN s
        ELSE IF ~StackAccepted(other_name, target_name, s.boarddefs) THEN s
        ELSE LET stack_pos == Get(s.stacks, stack_str)
                 target == Get(s.boarddefs, target_name)
                 target_pos == SubSeq(target.bounds, 1, 2)
                 stacked == [name |-> other_name,
                             offset |-> StackOffset(stack_pos, target_pos, p.z_offset)]
             IN  [stacks |-> Pop(s.stacks, stack_str),
                  boarddefs |->
                      SetItem(s.boarddefs, target_name,
                              [target EXCEPT !.stacked_boards = Append(@, stacked)])]

RECURSIVE ResolveStacks(_, _)
ResolveStacks(s, stack_strs) ==
    IF stack_strs = <<>> THEN s
    ELSE ResolveStacks(ResolveStack(s, Head(stack_strs)), Tail(stack_strs))

\* a report that forgets the stack bucket
Leftovers_NoStacks(tls, brs, stacks) == Keys(tls) \o Keys(brs)

\* line 139: ignored += list(tls.keys()) + list(brs.keys()) + list(stacks.keys())
Leftovers(tls, brs, stacks) == Keys(tls) \o Keys(brs) \o Keys(stacks)

\* get_boarddefs(board): the pair it returns
get_boarddefs(ds) ==
    LET b == ClassifyDrawings([tls |-> <<>>, brs |-> <<>>, stacks |-> <<>>,
                               ignored |-> <<>>], ds)
        r == ResolveBoards([tls |-> b.tls, brs |-> b.brs, boarddefs |-> <<>>],
                           Keys(b.tls))
        k == ResolveStacks([stacks |-> b.stacks, boarddefs |-> r.boarddefs],
                           Keys(b.stacks))
    IN  [boarddefs |-> k.boarddefs,
         ignored |-> b.ignored \o Leftovers(r.tls, r.brs, k.stacks)]

(***************************************************************************)
(* struct.pack("!f..."): each value is rounded to the nearest IEEE-754      *)
(* single (24 significant bits, ties to even).  A record is modelled by the *)
(* tuple of singles its bytes encode, so unpacking it is reading the tuple. *)
(***************************************************************************)
F32_SIGNIFICAND == 16777216   \* 2^24

RECURSIVE Ulp(_)
Ulp(a) == IF a < F32_SIGNIFICAND THEN 1 ELSE 2 * Ulp(a \div 2)

RoundToMultiple(a, u) ==
    LET q == a \div u
        r == a % u
    IN  IF 2 * r < u THEN q * u
        ELSE IF 2 * r > u THEN (q + 1) * u
        ELSE IF q % 2 = 0 THEN q * u ELSE (q + 1) * u

F32(v) == IF v < 0 THEN 0 - RoundToMultiple(0 - v, Ulp(0 - v))
          ELSE RoundToMultiple(v, Ulp(v))

pack(values) == [i \in DOMAIN values |-> F32(values[i])]

(***************************************************************************)
(* Paths and the scratch directory.  A file of the scratch directory is     *)
(* [path, run]: its path below get_tempdir() and the export_pcb3d           *)
(* invocation that rendered it.                                             *)
(***************************************************************************)
\* str(Path(a) / b): joining an empty name leaves the path as it is
PathJoin(a, b) == IF b = "" THEN a ELSE a \o "/" \o b

EndsWith(s, p) == Len(s) >= Len(p) /\ SubSeq(s, Len(s) - Len(p) + 1, Len(s)) = p

\* path.name of a file below directory dir
BaseName(path, dir) == SliceFrom(path, Len(dir) + 1)

\* writing a file: it replaces a file of the same path
WriteFile(td, path, r) ==
    [td EXCEPT !.files = {f \in @ : f.path # path} \cup {[path |-> path, run |-> r]}]

RECURSIVE WriteFiles(_, _, _)
WriteFiles(td, paths, r) ==
    IF paths = <<>> THEN td
    ELSE WriteFiles(WriteFile(td, Head(paths), r), Tail(paths), r)

\* mkdir(exist_ok=True) without the rmtree
init_tempdir_Keep(td) == [exists |-> TRUE, files |-> td.files]

\* init_tempdir(): shutil.rmtree when the directory exists, then mkdir
init_tempdir(td) == [exists |-> TRUE, files |-> {}]

\* a set as a sequence, for the files a glob yields
RECURSIVE SeqOfSet(_)
SeqOfSet(S) ==
    IF S = {} THEN <<>>
    ELSE LET x == CHOOSE y \in S : TRUE IN <<x>> \o SeqOfSet(S \ {x})

\* pcbnew.ExportVRML(wrl_path, ..., components_path, ...): the board model and
\* one model per component
VrmlOutputs(comps) ==
    <<PCB>> \o SeqOfSet({PathJoin(COMPONENTS, c \o ".wrl") : c \in comps})

\* export_layers: the first n layers of INCLUDED_LAYERS plotted and renamed
LayerOutputs(n) == [i \in 1..n |-> PathJoin(LAYERS, INCLUDED_LAYERS[i] \o ".svg")]

\* dir.glob("**/*" + ext) below the scratch directory
Glob(td, dir, ext) ==
    SeqOfSet({f \in td.files : StartsWith(f.path, dir \o "/") /\ EndsWith(f.path, ext)})

\* lines 45-49: the bounds handed to export_layers and written to layers/bounds
LayerBounds(bb) ==
    LET bounds == <<bb.top, bb.left, bb.bottom, bb.right>>
    IN  <<bounds[1] - SVG_MARGIN, bounds[2] - SVG_MARGIN,
          bounds[3] + SVG_MARGIN * 2, bounds[4] + SVG_MARGIN * 2>>

(***************************************************************************)
(* The archive: the entries of the zip file in write order.  An entry is    *)
(* [path, kind, floats, made_by]: kind "dir" for writestr(path, ""),        *)
(* "record" for a packed record (floats), "file" for a file copied from the *)
(* scratch directory (made_by: the invocation that rendered the file).      *)
(***************************************************************************)
DirEntry(path) == [path |-> path, kind |-> "dir", floats |-> <<>>, made_by |-> 0]
RecordEntry(path, values) ==
    [path |-> path, kind |-> "record", floats |-> pack(values), made_by |-> 0]
FileEntry(path, f) == [path |-> path, kind |-> "file", floats |-> <<>>, made_by |-> f.run]

\* file.write(path, str(Path(dir) / path.name)) for each path found
WrittenAs(found, dir) ==
    [i \in DOMAIN found |-> FileEntry(PathJoin(dir, BaseName(found[i].path, dir)), found[i])]

CopiedEntries(td, dir, ext) == WrittenAs(Glob(td, dir, ext), dir)

\* lines 71-75
StackedEntries(subdir, stacked_boards) ==
    [i \in DOMAIN stacked_boards |->
        RecordEntry(PathJoin(subdir, STACKED \o stacked_boards[i].name),
                    stacked_boards[i].offset)]

\* lines 66-75
RECURSIVE BoardEntries(_)
BoardEntries(defs) ==
    IF defs = <<>> THEN <<>>
    ELSE LET boarddef == Head(defs).value
             subdir == PathJoin(BOARDS, boarddef.name)
         IN  <<RecordEntry(PathJoin(subdir, BOUNDS), boarddef.bounds)>>
             \o StackedEntries(subdir, boarddef.stacked_boards)
             \o BoardEntries(Tail(defs))

\* lines 52-75: everything written inside the with block
ZipEntries(td, bounds, defs) ==
    <<DirEntry(COMPONENTS \o "/"), DirEntry(LAYERS \o "/"), DirEntry(BOARDS \o "/")>>
    \o <<FileEntry(PCB, CHOOSE f \in td.files : f.path = PCB)>>
    \o CopiedEntries(td, COMPONENTS, ".wrl")
    \o CopiedEntries(td, LAYERS, ".svg")
    \o <<RecordEntry(PathJoin(LAYERS, LAYERS_BOUNDS), bounds)>>
    \o BoardEntries(defs)

(***************************************************************************)
(* The host boards of the model: the drawings a board may carry (texts with *)
(* a position, and a graphic line), its edge bounding box and components.   *)
(***************************************************************************)
Text(t, x, y) == [type |-> PCB_TEXT_T, text |-> t, pos |-> <<x, y>>]
Line == [type |-> "PCB_SHAPE_T", text |-> "", pos |-> <<0, 0>>]
Box(t, l, b, r) == [top |-> t, left |-> l, bottom |-> b, right |-> r]

ScenarioBoard ==
    [pool |-> {Text("PCB3D_TL_Main", 0, 0), Text("PCB3D_BR_Main", 100, 50),
               Text("PCB3D_STACK_Daughter_ONTO_Main_5.0", 10, 10),
               Text("PCB3D_TL_Daughter", 20, 20), Text("PCB3D_BR_Daughter", 60, 40)},
     bbox |-> Box(0, 0, 50, 100), components |-> {"R1"}]

PanelBoard ==
    [pool |-> {Text("PCB3D_TL_Main", 5, 7), Text("PCB3D_BR_Main", 100, 50),
               Text("PCB3D_TL_Main", 6, 9),
               Text("PCB3D_STACK_FPNL_ONTO_Main_-2.0", 10, 10),
               Text("PCB3D_STACK_FPNL_ONTO_Main_-2.0", 11, 12),
               Text("PCB3D_STACK_FPNL_ONTO_Main_3", 20, 30)},
     bbox |-> Box(10, 20, 60, 120), components |-> {"R1", "C1"}]

CollisionBoard ==
    [pool |-> {Text("PCB3D_TL_A B", 0, 0), Text("PCB3D_BR_A B", 10, 10),
               Text("PCB3D_TL_A!B", 20, 0), Text("PCB3D_BR_A!B", 50, 40),
               Text("PCB3D_STACK_FPNL_ONTO_A B_1", 3, 4)},
     bbox |-> Box(0, 0, 40, 50), components |-> {}]

MalformedBoard ==
    [pool |-> {Text("PCB3D_TL_Main", 0, 0), Text("PCB3D_BR_Main", 100, 50),
               Text("PCB3D_STACK_FPNL_ONTO_Main_2", 10, 10),
               Text("PCB3D_STACK_X_ONTO_Main_notanumber", 1, 1),
               Text("PCB3D_STACK_FPNL_ON_Main_1", 2, 2),
               Text("PCB3D_STACK_FPNL_ONTO_Main", 3, 3)},
     bbox |-> Box(0, 0, 50, 100), components |-> {"R1"}]

StrayBoard ==
    [pool |-> {Text("PCB3D_TL_Main", 0, 0), Text("PCB3D_BR_Main", 100, 50),
               Text("PCB3D_STACK_FPNL_ONTO_Nope_1", 10, 10),
               Text("PCB3D_BR_Lone", 7, 7), Text("PCB3D_FOO", 1, 1),
               Text("hello", 2, 2), Line},
     bbox |-> Box(0, 0, 16777215, 16777217), components |-> {"C1"}]

Boards == {ScenarioBoard, PanelBoard, CollisionBoard, MalformedBoard, StrayBoard}

ComponentNames == {"R1", "C1"}

\* the sequences over S of length at most n
SeqsUpTo(S, n) == UNION {[1..k -> S] : k \in 0..n}

NoTempdir == [exists |-> FALSE, files |-> {}]
NoArchive == [by |-> 0, entries |-> <<>>]

(***************************************************************************)
(* Operations.                                                              *)
(***************************************************************************)
\* the plugin calls get_boarddefs(board) on the current board
GetBoarddefs ==
    /\ pc = "edit"
    /\ boarddefs' = get_boarddefs(drawings).boarddefs
    /\ ignored' = get_boarddefs(drawings).ignored
    /\ pc' = "parsed"
    /\ UNCHANGED <<drawings, bbox, components, tempdir, archive, run, name_in, name_out>>

\* export_pcb3d(filepath, boarddefs) running to its end
ExportOK ==
    /\ pc = "parsed"
    /\ tempdir' = WriteFiles(WriteFiles(init_tempdir(tempdir),
                                        VrmlOutputs(components), run + 1),
                             LayerOutputs(Len(INCLUDED_LAYERS)), run + 1)
    /\ archive' = [by |-> run + 1,
                   entries |-> ZipEntries(tempdir', LayerBounds(bbox), boarddefs)]
    /\ run' = run + 1
    /\ pc' = "exported"
    /\ UNCHANGED <<drawings, bbox, components, boarddefs, ignored, name_in, name_out>>

\* export_pcb3d raising in init_tempdir: rmtree fails and leaves the directory,
\* or mkdir fails after the directory was removed
ExportFailsInit ==
    /\ pc = "parsed"
    /\ \/ tempdir.exists /\ tempdir' = tempdir
       \/ tempdir' = NoTempdir
    /\ run' = run + 1
    /\ pc' = "failed_init"
    /\ UNCHANGED <<drawings, bbox, components, boarddefs, ignored, archive, name_in, name_out>>

\* export_pcb3d raising while the host renders: in ExportVRML after some of its
\* files, or in export_layers after n layers
ExportFailsRender ==
    /\ pc = "parsed"
    /\ \/ \E n \in 0..Len(VrmlOutputs(components)) - 1 :
              tempdir' = WriteFiles(init_tempdir(tempdir),
                                    SubSeq(VrmlOutputs(components), 1, n), run + 1)
       \/ \E n \in 0..Len(INCLUDED_LAYERS) - 1 :
              tempdir' = WriteFiles(WriteFiles(init_tempdir(tempdir),
                                               VrmlOutputs(components), run + 1),
                                    LayerOutputs(n), run + 1)
    /\ run' = run + 1
    /\ pc' = "failed_render"
    /\ UNCHANGED <<drawings, bbox, components, boarddefs, ignored, archive, name_in, name_out>>

\* export_pcb3d raising inside the with block: the zip file holds the entries
\* written so far
ExportFailsZip ==
    /\ pc = "parsed"
    /\ tempdir' = WriteFiles(WriteFiles(init_tempdir(tempdir),
                                        VrmlOutputs(components), run + 1),
                             LayerOutputs(Len(INCLUDED_LAYERS)), run + 1)
    /\ \E n \in 0..Len(ZipEntries(tempdir', LayerBounds(bbox), boarddefs)) - 1 :
           archive' = [by |-> run + 1,
                       entries |-> SubSeq(ZipEntries(tempdir', LayerBounds(bbox), boarddefs),
                                          1, n)]
    /\ run' = run + 1
    /\ pc' = "failed_zip"
    /\ UNCHANGED <<drawings, bbox, components, boarddefs, ignored, name_in, name_out>>

\* the user changes the components of the board between two exports
EditBoard ==
    /\ pc \in {"exported", "failed_init", "failed_render", "failed_zip"}
    /\ run < MaxRuns
    /\ \E comps \in SUBSET ComponentNames : components' = comps
    /\ pc' = "edit"
    /\ UNCHANGED <<drawings, bbox, boarddefs, ignored, tempdir, archive, run, name_in, name_out>>

\* sanitized applied to name_in, then to its own result
Sanitize ==
    /\ pc = "sanitize"
    /\ Len(name_out) < 2
    /\ name_out' = Append(name_out, sanitized(IF name_out = <<>> THEN name_in
                                              ELSE name_out[Len(name_out)]))
    /\ UNCHANGED <<drawings, bbox, components, boarddefs, ignored, tempdir, archive,
                   run, pc, name_in>>

(***************************************************************************)
(* Spec: one board of Boards with any list of at most MaxDrawings of its    *)
(* drawings is parsed and exported.                                         *)
(***************************************************************************)
Init ==
    /\ \E b \in Boards :
          /\ drawings \in SeqsUpTo(b.pool, MaxDrawings)
          /\ bbox = b.bbox
          /\ components = b.components
    /\ boarddefs = <<>>
    /\ ignored = <<>>
    /\ tempdir = NoTempdir
    /\ archive = NoArchive
    /\ run = 0
    /\ pc = "edit"
    /\ name_in = ""
    /\ name_out = <<>>

Next == GetBoarddefs \/ ExportOK

Spec == Init /\ [][Next]_vars

(***************************************************************************)
(* SpecScratch: a session of up to MaxRuns exports of one board whose       *)
(* components change in between, each export ending well or failing.        *)
(***************************************************************************)
InitScratch ==
    /\ drawings = <<Text("PCB3D_TL_Main", 0, 0), Text("PCB3D_BR_Main", 100, 50)>>
    /\ bbox = Box(0, 0, 50, 100)
    /\ components \in SUBSET ComponentNames
    /\ boarddefs = <<>>
    /\ ignored = <<>>
    /\ tempdir \in {NoTempdir, [exists |-> TRUE, files |-> {}]}
    /\ archive = NoArchive
    /\ run = 0
    /\ pc = "edit"
    /\ name_in = ""
    /\ name_out = <<>>

NextScratch ==
    \/ GetBoarddefs
    \/ ExportOK
    \/ ExportFailsInit
    \/ ExportFailsRender
    \/ ExportFailsZip
    \/ EditBoard

SpecScratch == InitScratch /\ [][NextScratch]_vars

(***************************************************************************)
(* SpecSanitize: sanitized applied twice to every string of at most         *)
(* MaxNameLen characters over SanitizeAlphabet, and to the example name.    *)
(***************************************************************************)
SanitizeAlphabet == {"a", "7", "_", " ", "!"}

RECURSIVE Strings(_)
Strings(n) ==
    IF n = 0 THEN {""}
    ELSE Strings(n - 1) \cup {s \o c : s \in Strings(n - 1), c \in SanitizeAlphabet}

InitSanitize ==
    /\ name_in \in Strings(MaxNameLen) \cup {"Front Panel!!"}
    /\ name_out = <<>>
    /\ drawings = <<>>
    /\ bbox = Box(0, 0, 0, 0)
    /\ components = {}
    /\ boarddefs = <<>>
    /\ ignored = <<>>
    /\ tempdir = NoTempdir
    /\ archive = NoArchive
    /\ run = 0
    /\ pc = "sanitize"

NextSanitize == Sanitize

SpecSanitize == InitSanitize /\ [][NextSanitize]_vars


(***************************************************************************)
(* Vocabulary of the properties.                                            *)
(***************************************************************************)
\* get_boarddefs has just returned boarddefs and ignored
Parsed == pc = "parsed"
\* r is the pair get_boarddefs returned
Returned(r) == r.boarddefs = boarddefs /\ r.ignored = ignored

IsText(d) == d.type = PCB_TEXT_T
TextsOf(ds) == {ds[i].text : i \in {j \in DOMAIN ds : IsText(ds[j])}}
Markers(prefix) == {t \in TextsOf(drawings) : StartsWith(t, prefix)}

\* position of the first text drawing that reads t
FirstPos(t) ==
    drawings[CHOOSE i \in DOMAIN drawings :
                 /\ IsText(drawings[i]) /\ drawings[i].text = t
                 /\ \A j \in 1..(i - 1) : ~(IsText(drawings[j]) /\ drawings[j].text = t)].pos

InIgnored(t) == \E i \in DOMAIN ignored : ignored[i] = t
Without(ds, texts) == SelectSeq(ds, LAMBDA d : ~(IsText(d) /\ d.text \in texts))
StackFields(t) == Split(SliceFrom(t, 12), "_")
\* the entries of the archive under one path, and the floats of the only one
EntriesAt(path) == SelectSeq(archive.entries, LAMBDA e : e.path = path)
OnlyRecordAt(path, values) ==
    Len(EntriesAt(path)) = 1 /\ EntriesAt(path)[1].floats = values

AllStacked(defs) ==
    UNION {{defs[i].value.stacked_boards[k] : k \in DOMAIN defs[i].value.stacked_boards} :
              i \in DOMAIN defs}

(***************************************************************************)
(* C1.  The end-to-end scenario.                                            *)
(***************************************************************************)
ScenarioStack == "PCB3D_STACK_Daughter_ONTO_Main_5.0"
ScenarioInput ==
    {Text("PCB3D_TL_Main", 0, 0), Text("PCB3D_BR_Main", 100, 50),
     Text(ScenarioStack, 10, 10)}
IsScenario ==
    Len(drawings) = 3 /\ {drawings[i] : i \in DOMAIN drawings} = ScenarioInput

\* C1 as claimed: for the three annotations of the scenario, get_boarddefs returns
\* Main with bounds (0,0,100,50), StackedBoard(Daughter, (10,10,5.0)) is in Main's
\* stacked_boards, and the stack marker is not in the ignored list.
C1_ScenarioAsClaimed ==
    (Parsed /\ IsScenario) =>
        /\ Has(boarddefs, "Main")
        /\ Get(boarddefs, "Main").bounds = <<0, 0, 100, 50>>
        /\ [name |-> "Daughter", offset |-> <<10, 10, 5>>] \in AllStacked(boarddefs)
        /\ ~InIgnored(ScenarioStack)

\* C1 as amended: for the three annotations of the scenario, get_boarddefs returns
\* exactly the board Main with bounds (0,0,100,50); no board Daughter exists, so
\* Main's stacked_boards stays empty and the stack marker is in the ignored list.
C1_ScenarioStackIgnored ==
    (Parsed /\ IsScenario) =>
        /\ KeySet(boarddefs) = {"Main"}
        /\ Get(boarddefs, "Main").name = "Main"
        /\ Get(boarddefs, "Main").bounds = <<0, 0, 100, 50>>
        /\ Get(boarddefs, "Main").stacked_boards = <<>>
        /\ ignored = <<ScenarioStack>>

C1_Witness == pc = "parsed" /\ IsScenario

(***************************************************************************)
(* C2.  The whole-board bounds record.                                      *)
(***************************************************************************)
\* C2: the record export_pcb3d writes to layers/bounds is
\* (top - M, left - M, width + 2M, height + 2M), with width = right - left,
\* height = bottom - top and M = SVG_MARGIN.
C2_BoundsExpandedByMargin ==
    pc = "exported" =>
        OnlyRecordAt(PathJoin(LAYERS, LAYERS_BOUNDS),
                     pack(<<bbox.top - SVG_MARGIN, bbox.left - SVG_MARGIN,
                            (bbox.right - bbox.left) + 2 * SVG_MARGIN,
                            (bbox.bottom - bbox.top) + 2 * SVG_MARGIN>>))

(***************************************************************************)
(* C3.  Every matched pair of corner markers yields its board.              *)
(***************************************************************************)
PairBounds(tl_str, br_str) ==
    <<FirstPos(tl_str)[1], FirstPos(tl_str)[2],
      FirstPos(br_str)[1] - FirstPos(tl_str)[1],
      FirstPos(br_str)[2] - FirstPos(tl_str)[2]>>

\* C3: for every top-left marker PCB3D_TL_<s> whose bottom-right marker
\* PCB3D_BR_<s> is present, the mapping holds under sanitized(s) a BoardDef with
\* the bounds computed from that pair, and neither marker is ignored.
C3_EveryPairYieldsItsBoard ==
    Parsed =>
        \A tl_str \in Markers("PCB3D_TL_") :
            LET s == SliceFrom(tl_str, 9)
                br_str == "PCB3D_BR_" \o s
            IN  br_str \in TextsOf(drawings) =>
                    /\ Has(boarddefs, sanitized(s))
                    /\ Get(boarddefs, sanitized(s)).bounds = PairBounds(tl_str, br_str)
                    /\ ~InIgnored(tl_str)
                    /\ ~InIgnored(br_str)

(***************************************************************************)
(* C4.  Stack markers onto a board that does not exist.                     *)
(***************************************************************************)
HasMissingTarget(t) ==
    /\ Len(StackFields(t)) >= 3
    /\ ~Has(boarddefs, sanitized(StackFields(t)[3]))

\* C4: a stack marker whose sanitized target name is no key of the board mapping
\* is in the ignored list and leaves the mapping as it is without the marker: no
\* StackedBoard comes from it.
C4_MissingTargetIgnored ==
    Parsed =>
        \A t \in Markers("PCB3D_STACK_") :
            HasMissingTarget(t) =>
                /\ InIgnored(t)
                /\ get_boarddefs(Without(drawings, {t})).boarddefs = boarddefs

C4_Witness ==
    /\ pc = "parsed"
    /\ boarddefs # <<>>
    /\ \E t \in Markers("PCB3D_STACK_") :
           /\ HasMissingTarget(t)
           /\ Len(StackFields(t)) = 4
           /\ StackFields(t)[1] = "FPNL"
           /\ StackFields(t)[2] = "ONTO"
           /\ ~float(StackFields(t)[4]).ValueError

(***************************************************************************)
(* C5.  The reserved panel element FPNL.                                    *)
(***************************************************************************)
IsPanelStack(t) ==
    /\ Len(StackFields(t)) = 4
    /\ StackFields(t)[1] = "FPNL"
    /\ StackFields(t)[2] = "ONTO"
    /\ ~float(StackFields(t)[4]).ValueError
    /\ Has(boarddefs, sanitized(StackFields(t)[3]))

PanelStacked(t) ==
    LET target == Get(boarddefs, sanitized(StackFields(t)[3]))
    IN  [name |-> "FPNL",
         offset |-> <<FirstPos(t)[1] - target.bounds[1],
                      FirstPos(t)[2] - target.bounds[2],
                      float(StackFields(t)[4]).value>>]

StackedOf(name) ==
    LET sb == Get(boarddefs, name).stacked_boards IN {sb[k] : k \in DOMAIN sb}

\* C5: a four-field stack marker PCB3D_STACK_FPNL_ONTO_<target>_<z> whose target
\* is a board is accepted: StackedBoard(FPNL, (x - target x, y - target y, z)) is
\* in the target's stacked_boards and the marker is not ignored; and every
\* StackedBoard is named after a board of the mapping or FPNL.
C5_PanelElementAccepted ==
    Parsed =>
        /\ \A t \in Markers("PCB3D_STACK_") :
               IsPanelStack(t) =>
                   /\ PanelStacked(t) \in StackedOf(sanitized(StackFields(t)[3]))
                   /\ ~InIgnored(t)
        /\ \A sb \in AllStacked(boarddefs) : sb.name \in KeySet(boarddefs) \cup {"FPNL"}

C5_Witness ==
    /\ pc = "parsed"
    /\ ~Has(boarddefs, "FPNL")
    /\ \E t \in Markers("PCB3D_STACK_") :
           /\ IsPanelStack(t)
           /\ FirstPos(t) # <<0, 0>>
           /\ Get(boarddefs, sanitized(StackFields(t)[3])).bounds[1] # 0

(***************************************************************************)
(* C6.  Malformed stack markers.                                            *)
(***************************************************************************)
IsMalformed(t) ==
    /\ StartsWith(t, "PCB3D_STACK_")
    /\ \/ Len(StackFields(t)) # 4
       \/ float(StackFields(t)[4]).ValueError
       \/ StackFields(t)[2] # "ONTO"

MalformedIn(ds) == {t \in TextsOf(ds) : IsMalformed(t)}

\* r, the result of get_boarddefs without the malformed markers bad, is what
\* get_boarddefs returned once the markers of bad are left out of the ignored list
SameButMalformed(r, bad) ==
    /\ r.boarddefs = boarddefs
    /\ r.ignored = SelectSeq(ignored, LAMBDA t : t \notin bad)

\* C6: every stack marker with a field count other than four, a fourth field
\* that is no number or a second field other than ONTO is in the ignored list,
\* yields no StackedBoard, and leaves the result for all other annotations as it
\* is without the malformed markers.
C6_MalformedStackIgnored ==
    Parsed =>
        /\ \A t \in MalformedIn(drawings) : InIgnored(t)
        /\ SameButMalformed(get_boarddefs(Without(drawings, MalformedIn(drawings))),
                            MalformedIn(drawings))

C6_Witness ==
    /\ pc = "parsed"
    /\ "PCB3D_STACK_X_ONTO_Main_notanumber" \in TextsOf(drawings)
    /\ Has(boarddefs, "Main")
    /\ Get(boarddefs, "Main").stacked_boards # <<>>
    /\ InIgnored("PCB3D_STACK_X_ONTO_Main_notanumber")

(***************************************************************************)
(* C7.  Duplicate marker texts.                                             *)
(***************************************************************************)
IsMarker(d) ==
    /\ IsText(d)
    /\ \/ StartsWith(d.text, "PCB3D_TL_")
       \/ StartsWith(d.text, "PCB3D_BR_")
       \/ StartsWith(d.text, "PCB3D_STACK_")

\* ds without the markers whose text an earlier drawing of ds already carries
RECURSIVE Deduplicated(_, _)
Deduplicated(ds, seen) ==
    IF ds = <<>> THEN <<>>
    ELSE IF IsMarker(Head(ds)) /\ Head(ds).text \in seen
         THEN Deduplicated(Tail(ds), seen)
         ELSE <<Head(ds)>>
              \o Deduplicated(Tail(ds),
                              IF IsMarker(Head(ds)) THEN seen \cup {Head(ds).text} ELSE seen)

HasDuplicate(prefix) ==
    \E i, j \in DOMAIN drawings :
        /\ i < j
        /\ IsText(drawings[i]) /\ IsText(drawings[j])
        /\ StartsWith(drawings[i].text, prefix)
        /\ drawings[i].text = drawings[j].text
        /\ drawings[i].pos # drawings[j].pos

\* C7: when a top-left, bottom-right or stack marker text occurs more than once,
\* the mapping and the ignored list are those of the input without the later
\* occurrences: the first position is the one used, and a later occurrence adds
\* nothing to the ignored list.
C7_FirstOccurrenceWins ==
    Parsed => Returned(get_boarddefs(Deduplicated(drawings, {})))

C7_Witness ==
    /\ pc = "parsed"
    /\ HasDuplicate("PCB3D_STACK_")
    /\ AllStacked(boarddefs) # {}

(***************************************************************************)
(* C8.  The per-board records of the archive.                               *)
(***************************************************************************)
BoundsPath(boarddef) == PathJoin(PathJoin(BOARDS, boarddef.name), BOUNDS)
StackedPath(boarddef, stacked) ==
    PathJoin(PathJoin(BOARDS, boarddef.name), STACKED \o stacked.name)

\* C8: the archive holds for every board exactly one bounds record and for every
\* StackedBoard of its list exactly one stacked_<other-name> record, and reading
\* the records back by path reproduces every board's bounds and every
\* StackedBoard's offset.
C8_OneRecordPerEntry ==
    pc = "exported" =>
        \A i \in DOMAIN boarddefs :
            LET boarddef == boarddefs[i].value
            IN  /\ OnlyRecordAt(BoundsPath(boarddef), boarddef.bounds)
                /\ \A k \in DOMAIN boarddef.stacked_boards :
                       OnlyRecordAt(StackedPath(boarddef, boarddef.stacked_boards[k]),
                                    boarddef.stacked_boards[k].offset)

(***************************************************************************)
(* C9.  The scratch directory over a session of exports (SpecScratch).      *)
(***************************************************************************)
\* C9: whenever an export got past init_tempdir, every file of the scratch
\* directory was rendered by that invocation; and every component model and
\* layer image of the archive was rendered by the invocation that wrote the
\* archive.
C9_NoStaleFiles ==
    /\ pc \in {"exported", "failed_render", "failed_zip"} =>
           /\ tempdir.exists
           /\ \A f \in tempdir.files : f.run = run
    /\ \A i \in DOMAIN archive.entries :
           archive.entries[i].kind = "file" => archive.entries[i].made_by = archive.by

C9_Witness ==
    /\ pc = "exported"
    /\ archive.by >= 2
    /\ components = {}
    /\ \E i \in DOMAIN archive.entries : archive.entries[i].kind = "file"

(***************************************************************************)
(* C10.  sanitized (SpecSanitize).                                          *)
(***************************************************************************)
IsWordAt(s, i) == Char(s, i) \in WordChars
\* the places of s that show in the result: the word characters and the first
\* character of every maximal run of other characters
Kept(s) == {i \in 1..Len(s) : IsWordAt(s, i) \/ i = 1 \/ IsWordAt(s, i - 1)}
Rank(s, i) == Cardinality({j \in Kept(s) : j <= i})
RunsCollapsed(s, out) ==
    /\ Len(out) = Cardinality(Kept(s))
    /\ \A i \in Kept(s) :
           Char(out, Rank(s, i)) = IF IsWordAt(s, i) THEN Char(s, i) ELSE "_"

\* C10: sanitized replaces every maximal run of characters other than letters,
\* digits and underscore by one underscore and keeps the other characters, a
\* second application changes nothing, and "Front Panel!!" becomes "Front_Panel_".
C10_SanitizedCollapsesRuns ==
    /\ Len(name_out) >= 1 => RunsCollapsed(name_in, name_out[1])
    /\ Len(name_out) >= 2 => name_out[2] = name_out[1]
    /\ (Len(name_out) >= 1 /\ name_in = "Front Panel!!") => name_out[1] = "Front_Panel_"

C10_Witness ==
    /\ Len(name_out) = 2
    /\ name_in = "Front Panel!!"
    /\ name_out[2] = "Front_Panel_"

====
